---- MODULE Spec2Model ----
(***************************************************************************)
(* The mock-aware fetch dispatcher (libs/createFetcher), the transport     *)
(* client it calls and the effects of its failure handling; and the read   *)
(* and write hooks of the demo resource over the query client's cache;     *)
(* and the counter store.                                                  *)
(*                                                                         *)
(* JavaScript values.  An optional value is a sequence of length at most   *)
(* one: <<>> is undefined (or null), <<v>> is the value v.  An object is a *)
(* record; a key an object does not carry is a key outside its DOMAIN.     *)
(***************************************************************************)
EXTENDS Integers, Sequences, FiniteSets, TLC

\* Bounds of the model.
NumDispatch == 3
NumConc == 2
MaxData == 2
MaxFetch == 3
MaxCalls == 6
MaxObservers == 2

Dispatches == 1..NumDispatch
\* the dispatches that run concurrently in SpecConc
ConcDispatches == { d \in Dispatches : d <= NumConc }

\* Program constants.
StatusUnauthorized == 401
EnvelopeCode == 200
DemoDelay == 3000
MODAL_APPLICATION_ERROR == "applicationError"
SessionCookie == "SID"
LoginHref == "/login"
HomeHref == "/"
FallbackTitle == "Error"
\* the Thai sentence of createFetcher's catch block, as one opaque string
FallbackMessage == "generic localized fallback message"
DemoListUrl == "/api/demo/list"
DemoListJson == "/apiMockup/demo/list.json"
\* the params of the demo pages' read, { limit: 10 }, as one opaque string
DemoParams == "limit=10"
\* another value of the read hook's params
OtherParams == "limit=20"
\* the resource name the read key starts with and the write hook invalidates
ResourceName == "demoList"

Undefined == <<>>

\* o[k] of JavaScript: undefined when o has no key k
Get(o, k) == IF k \in DOMAIN o THEN o[k] ELSE Undefined

\* truthiness of an optional boolean, number, string
TruthyBool(v) == v # Undefined /\ v[1]
TruthyNum(v) == v # Undefined /\ v[1] # 0
TruthyStr(v) == v # Undefined /\ v[1] # ""

\* `${v}` for an optional string
TemplateString(v) == IF v = Undefined THEN "undefined" ELSE v[1]

Restrict(f, K) == [k \in K |-> f[k]]

defaultOptions ==
  [mock |-> <<TRUE>>, jsonMockup |-> <<"">>, delay |-> <<0>>, timeout |-> <<0>>,
   showErrorDialog |-> <<TRUE>>]

\* The option objects a caller may pass: every subset of the keys below,
\* each key present with any of its values (undefined included).
OptionKeys == {"mock", "jsonMockup", "delay", "showErrorDialog", "method"}
FullOptions ==
  [mock : {Undefined, <<TRUE>>, <<FALSE>>},
   jsonMockup : {Undefined, <<"">>, <<DemoListJson>>},
   delay : {Undefined, <<0>>, <<DemoDelay>>},
   showErrorDialog : {Undefined, <<TRUE>>, <<FALSE>>},
   method : {<<"POST">>},
   url : {<<DemoListUrl>>},
   params : {<<DemoParams>>}]
FetcherOptions ==
  { Restrict(f, K \cup {"url", "params"}) : f \in FullOptions, K \in SUBSET OptionKeys }

\* { ...defaultOptions, ...options }
MergeOptions(defaults, options) ==
  [k \in DOMAIN defaults \cup DOMAIN options |->
     IF k \in DOMAIN options THEN options[k] ELSE defaults[k]]

VARIABLES
  DEV,           \* import.meta.env.DEV
  cookie,        \* the SID cookie: Undefined or <<token>>
  authorization, \* the Authorization header httpClient was created with
  location,      \* window.location.href
  fixture,       \* the parsed JSON of the fixture file at DemoListJson
  modals,        \* the context modals opened, in order
  pc,            \* per dispatch: where it stands
  fetchOptions,  \* per dispatch: the merged options
  timer,         \* per dispatch: the pending setTimeout, <<ms>>
  inflight,      \* per dispatch: the transport request awaited, <<request>>
  promise,       \* per dispatch: the returned promise
  caught,        \* per dispatch: the error the catch block received, <<error>>
  log,           \* every effect, in the order it happened
  callOptions,   \* per dispatch: the options the caller passed, where recorded
  queries,       \* the query client's cache: per query key, its entry
  mutation,      \* the state of the write hook's mutation
  count,         \* the count of the counter store
  calls          \* the calls made on the counter store, in order

vars == <<DEV, cookie, authorization, location, fixture, modals, pc,
          fetchOptions, timer, inflight, promise, caught, log, callOptions,
          queries, mutation, count, calls>>

storeVars == <<count, calls>>

\* Payloads and bodies.
DemoItems == { [id |-> i, name |-> "a"] : i \in 1..MaxData }
Envelopes == { [code |-> EnvelopeCode, message |-> "success", data |-> D] : D \in DemoItems }
\* what a fixture file or a server may hold: an envelope, or a bare payload
Bodies == Envelopes \cup DemoItems

NoOptions == [k \in {} |-> Undefined]
NoPromise == [state |-> "none", value |-> Undefined, reason |-> Undefined]
PendingPromise == [state |-> "pending", value |-> Undefined, reason |-> Undefined]

\* The cache of the query client.  An entry is there once a read hook has used
\* its key; dispatches counts the calls of its queryFn, and owed says that the
\* entry was invalidated by a mutation and no queryFn call was made since.
Params == {DemoParams, OtherParams}
\* a key without the params: ['demoList']
queryKey_noParams(params) == <<ResourceName>>

\* queryKey: ['demoList', params]
queryKey(params) == <<ResourceName, params>>
QueryKeys == { queryKey(params) : params \in Params }
NoQuery ==
  [exists |-> FALSE, hasData |-> FALSE, status |-> "pending", fetchStatus |-> "idle",
   isInvalidated |-> FALSE, fresh |-> FALSE, observers |-> 0, dispatches |-> 0,
   owed |-> FALSE]

\* httpClient = axios.create({ headers: { Authorization: `Bearer ${getCookie('SID')}` } })
httpClient(sid) == [Authorization |-> "Bearer " \o TemplateString(sid)]

Init ==
  /\ DEV \in BOOLEAN
  /\ cookie \in {Undefined, <<"token">>}
  /\ authorization = httpClient(cookie).Authorization
  /\ location = HomeHref
  /\ fixture \in Bodies
  /\ modals = <<>>
  /\ pc = [d \in Dispatches |-> "idle"]
  /\ fetchOptions = [d \in Dispatches |-> NoOptions]
  /\ timer = [d \in Dispatches |-> Undefined]
  /\ inflight = [d \in Dispatches |-> Undefined]
  /\ promise = [d \in Dispatches |-> NoPromise]
  /\ caught = [d \in Dispatches |-> Undefined]
  /\ log = <<>>
  /\ callOptions = [d \in Dispatches |-> NoOptions]
  /\ queries = [k \in QueryKeys |-> NoQuery]
  /\ mutation = "idle"
  /\ count = 0
  /\ calls = <<>>

\* shouldUseMockup without its check of the build mode
shouldUseMockup_noDev(options) ==
  IF ~TruthyBool(Get(options, "mock")) THEN FALSE
  ELSE IF Get(options, "jsonMockup") = <<"">> THEN FALSE
  ELSE TRUE

\* shouldUseMockup with the fixture-path test the wrong way round
shouldUseMockup_pathFlipped(options) ==
  IF ~DEV THEN FALSE
  ELSE IF ~TruthyBool(Get(options, "mock")) THEN FALSE
  ELSE IF Get(options, "jsonMockup") # <<"">> THEN FALSE
  ELSE TRUE

\* function shouldUseMockup(options)
shouldUseMockup(options) ==
  IF ~DEV THEN FALSE
  ELSE IF ~TruthyBool(Get(options, "mock")) THEN FALSE
  ELSE IF Get(options, "jsonMockup") = <<"">> THEN FALSE
  ELSE TRUE

\* the delay taken as seconds: (fetchOptions.delay || 0) * 1000
TimeoutMs_seconds(options) ==
  (IF TruthyNum(Get(options, "delay")) THEN Get(options, "delay")[1] ELSE 0) * 1000

\* fetchOptions.delay || 0 * 1000
TimeoutMs(options) ==
  IF TruthyNum(Get(options, "delay")) THEN Get(options, "delay")[1] ELSE 0 * 1000

\* a fixture request that keeps the caller's method
MockRequest_keepMethod(options) ==
  [method |-> IF Get(options, "method") = Undefined THEN "GET" ELSE Get(options, "method")[1],
   url |-> TemplateString(Get(options, "jsonMockup")),
   params |-> Undefined, Authorization |-> authorization]

\* httpClient.get(`${fetchOptions.jsonMockup}`)
MockRequest(options) ==
  [method |-> "GET", url |-> TemplateString(Get(options, "jsonMockup")),
   params |-> Undefined, Authorization |-> authorization]

\* a live request whose token is read from the cookie at the time of the call
LiveRequest_reread(options) ==
  [method |-> IF Get(options, "method") = Undefined THEN "GET" ELSE Get(options, "method")[1],
   url |-> TemplateString(Get(options, "url")),
   params |-> Get(options, "params"), Authorization |-> httpClient(cookie).Authorization]

\* httpClient.request(fetchOptions)
LiveRequest(options) ==
  [method |-> IF Get(options, "method") = Undefined THEN "GET" ELSE Get(options, "method")[1],
   url |-> TemplateString(Get(options, "url")),
   params |-> Get(options, "params"), Authorization |-> authorization]

\* a createFetcher that calls callFetch itself instead of scheduling it
createFetcher_sync(d, options) ==
  /\ pc[d] = "idle"
  /\ LET merged == MergeOptions(defaultOptions, options)
         request == IF shouldUseMockup(merged) THEN MockRequest(merged) ELSE LiveRequest(merged) IN
     /\ fetchOptions' = [fetchOptions EXCEPT ![d] = merged]
     /\ inflight' = [inflight EXCEPT ![d] = <<request>>]
     /\ log' = Append(log, [ev |-> "request", d |-> d, request |-> request])
  /\ promise' = [promise EXCEPT ![d] = PendingPromise]
  /\ pc' = [pc EXCEPT ![d] = "awaiting"]
  /\ UNCHANGED <<DEV, cookie, authorization, location, fixture, modals, timer, caught>>

\* createFetcher(options): merge, create the promise, schedule callFetch
createFetcher(d, options) ==
  /\ pc[d] = "idle"
  /\ LET merged == MergeOptions(defaultOptions, options) IN
     /\ fetchOptions' = [fetchOptions EXCEPT ![d] = merged]
     /\ timer' = [timer EXCEPT ![d] = <<TimeoutMs(merged)>>]
     /\ log' = Append(log, [ev |-> "setTimeout", d |-> d, ms |-> TimeoutMs(merged)])
  /\ promise' = [promise EXCEPT ![d] = PendingPromise]
  /\ pc' = [pc EXCEPT ![d] = "scheduled"]
  /\ UNCHANGED <<DEV, cookie, authorization, location, fixture, modals, inflight, caught>>

\* the timer fires: callFetch runs up to its await
callFetch(d) ==
  /\ pc[d] = "scheduled"
  /\ LET request == IF shouldUseMockup(fetchOptions[d])
                    THEN MockRequest(fetchOptions[d])
                    ELSE LiveRequest(fetchOptions[d]) IN
     /\ inflight' = [inflight EXCEPT ![d] = <<request>>]
     /\ log' = Append(log, [ev |-> "request", d |-> d, request |-> request])
  /\ timer' = [timer EXCEPT ![d] = Undefined]
  /\ pc' = [pc EXCEPT ![d] = "awaiting"]
  /\ UNCHANGED <<DEV, cookie, authorization, location, fixture, modals, fetchOptions, promise, caught>>

\* What the transport may answer.  A GET of the fixture address is served the
\* fixture file; any other request is served any body.
OkResponse(body) == [statusText |-> "OK", data |-> body]
Responses == { OkResponse(body) : body \in Bodies }
ServerResponses(request) ==
  IF request.method = "GET" /\ request.url = DemoListJson
  THEN {OkResponse(fixture)}
  ELSE Responses

\* What the transport may throw.  An AxiosError carries a message (a string,
\* possibly empty) and, when the server answered, the response: its status, its
\* status text (empty over HTTP/2) and its body (null, or an object with or
\* without a `message`).  Anything else thrown is not an AxiosError.
StatusText(status) ==
  IF status = StatusUnauthorized THEN "Unauthorized" ELSE "Internal Server Error"
ErrorBodies ==
  {Undefined, <<[code |-> <<500>>]>>, <<[message |-> <<"">>]>>,
   <<[message |-> <<"boom">>]>>}
ErrorResponses ==
  UNION { { [status |-> st, statusText |-> tx, data |-> body] :
              tx \in {"", StatusText(st)}, body \in ErrorBodies } :
          st \in {StatusUnauthorized, 500} }
ErrorMessages == {"", "Request failed"}
AxiosErrors ==
  { [isAxiosError |-> TRUE, message |-> m, response |-> r] :
      m \in ErrorMessages, r \in {Undefined} \cup { <<resp>> : resp \in ErrorResponses } }
OtherErrors == { [isAxiosError |-> FALSE, message |-> "not a transport error", response |-> Undefined] }
Errors == AxiosErrors \cup OtherErrors

\* error.response?.data.message throws a TypeError when the response is there
\* and its data is null or undefined
messageThrows(error) ==
  /\ error.isAxiosError
  /\ error.response # Undefined
  /\ error.response[1].data = Undefined

\* title = error.response?.statusText ?? title
title(error) ==
  IF error.isAxiosError /\ error.response # Undefined
  THEN error.response[1].statusText
  ELSE FallbackTitle

\* the message with the two sources the other way round
message_errorFirst(error) ==
  IF error.isAxiosError
  THEN LET bodyMessage == IF error.response = Undefined THEN Undefined
                          ELSE Get(error.response[1].data[1], "message") IN
       IF error.message # "" THEN error.message
       ELSE IF TruthyStr(bodyMessage) THEN bodyMessage[1] ELSE error.message
  ELSE FallbackMessage

\* message = error.response?.data.message || error.message
message(error) ==
  IF error.isAxiosError
  THEN LET bodyMessage == IF error.response = Undefined THEN Undefined
                          ELSE Get(error.response[1].data[1], "message") IN
       IF TruthyStr(bodyMessage) THEN bodyMessage[1] ELSE error.message
  ELSE FallbackMessage

\* every failure that carries a response taken as a session expiry
isUnauthorized_anyResponse(error) ==
  /\ error.isAxiosError
  /\ error.response # Undefined

\* isUnauthorized = error.response?.status === 401
isUnauthorized(error) ==
  /\ error.isAxiosError
  /\ error.response # Undefined
  /\ error.response[1].status = StatusUnauthorized

\* const appError: ServiceError = { title, message }
appError(error) == [title |-> title(error), message |-> message(error)]

\* resolve(value), reject(reason): a settled promise stays as it is
resolve(p, value) ==
  IF p.state = "pending" THEN [state |-> "fulfilled", value |-> <<value>>, reason |-> Undefined] ELSE p
reject(p, reason) ==
  IF p.state = "pending" THEN [state |-> "rejected", value |-> Undefined, reason |-> <<reason>>] ELSE p

\* resolving with the transport response itself
responseData_whole(response) == response

\* resolving with the envelope's data field when the body is an envelope
responseData_unwrapped(response) ==
  IF "data" \in DOMAIN response.data THEN response.data.data ELSE response.data

\* the value callFetch resolves with: response.data
responseData(response) == response.data

\* a try block that throws after it has resolved: the catch block then runs
\* for an exception that is no transport error
callFetchResolve_thenThrows(d, response) ==
  /\ pc[d] = "awaiting"
  /\ response \in ServerResponses(inflight[d][1])
  /\ promise' = [promise EXCEPT ![d] = resolve(promise[d], responseData(response))]
  /\ modals' = IF TruthyBool(Get(fetchOptions[d], "showErrorDialog"))
               THEN Append(modals, [modal |-> MODAL_APPLICATION_ERROR,
                                    innerProps |-> [title |-> FallbackTitle,
                                                    message |-> FallbackMessage]])
               ELSE modals
  /\ log' = log \o << [ev |-> "response", d |-> d, response |-> response],
                      [ev |-> "resolve", d |-> d, value |-> responseData(response)] >>
                 \o (IF TruthyBool(Get(fetchOptions[d], "showErrorDialog"))
                     THEN << [ev |-> "openContextModal", d |-> d, modal |-> MODAL_APPLICATION_ERROR,
                              innerProps |-> [title |-> FallbackTitle, message |-> FallbackMessage]] >>
                     ELSE <<>>)
                 \o << [ev |-> "reject", d |-> d,
                        reason |-> [title |-> FallbackTitle, message |-> FallbackMessage]] >>
  /\ inflight' = [inflight EXCEPT ![d] = Undefined]
  /\ pc' = [pc EXCEPT ![d] = "done"]
  /\ UNCHANGED <<DEV, cookie, authorization, location, fixture, fetchOptions, timer, caught>>

\* the awaited transport call returns: resolve(response.data)
callFetchResolve(d, response) ==
  /\ pc[d] = "awaiting"
  /\ response \in ServerResponses(inflight[d][1])
  /\ promise' = [promise EXCEPT ![d] = resolve(promise[d], responseData(response))]
  /\ log' = log \o << [ev |-> "response", d |-> d, response |-> response],
                      [ev |-> "resolve", d |-> d, value |-> responseData(response)] >>
  /\ inflight' = [inflight EXCEPT ![d] = Undefined]
  /\ pc' = [pc EXCEPT ![d] = "done"]
  /\ UNCHANGED <<DEV, cookie, authorization, location, fixture, modals, fetchOptions, timer, caught>>

\* the effects of the catch block, in the order the code performs them
sessionEffects(d, error) ==
  IF isUnauthorized(error)
  THEN << [ev |-> "removeCookie", d |-> d, name |-> SessionCookie],
          [ev |-> "navigate", d |-> d, href |-> LoginHref] >>
  ELSE <<>>
dialogEffects(d, options, error) ==
  IF TruthyBool(Get(options, "showErrorDialog"))
  THEN << [ev |-> "openContextModal", d |-> d, modal |-> MODAL_APPLICATION_ERROR,
           innerProps |-> [title |-> appError(error).title, message |-> appError(error).message]] >>
  ELSE <<>>

\* a catch block that schedules callFetch again instead of rejecting
callFetchCatch_retry(d, error) ==
  /\ pc[d] = "awaiting"
  /\ error \in Errors
  /\ inflight' = [inflight EXCEPT ![d] = Undefined]
  /\ caught' = [caught EXCEPT ![d] = <<error>>]
  /\ timer' = [timer EXCEPT ![d] = <<0>>]
  /\ pc' = [pc EXCEPT ![d] = "scheduled"]
  /\ UNCHANGED <<DEV, cookie, authorization, location, fixture, modals, fetchOptions, promise, log>>

\* a catch block that rejects first and performs its effects afterwards
callFetchCatch_rejectFirst(d, error) ==
  /\ pc[d] = "awaiting"
  /\ error \in Errors
  /\ inflight' = [inflight EXCEPT ![d] = Undefined]
  /\ caught' = [caught EXCEPT ![d] = <<error>>]
  /\ IF messageThrows(error)
     THEN /\ pc' = [pc EXCEPT ![d] = "threw"]
          /\ UNCHANGED <<cookie, location, modals, promise, log>>
     ELSE /\ cookie' = IF isUnauthorized(error) THEN Undefined ELSE cookie
          /\ location' = IF isUnauthorized(error) THEN LoginHref ELSE location
          /\ modals' = IF TruthyBool(Get(fetchOptions[d], "showErrorDialog"))
                       THEN Append(modals, [modal |-> MODAL_APPLICATION_ERROR,
                                            innerProps |-> [title |-> appError(error).title,
                                                            message |-> appError(error).message]])
                       ELSE modals
          /\ promise' = [promise EXCEPT ![d] = reject(promise[d], appError(error))]
          /\ log' = log \o << [ev |-> "reject", d |-> d, reason |-> appError(error)] >>
                        \o sessionEffects(d, error)
                        \o dialogEffects(d, fetchOptions[d], error)
          /\ pc' = [pc EXCEPT ![d] = "done"]
  /\ UNCHANGED <<DEV, authorization, fixture, fetchOptions, timer>>

\* a catch block that opens its dialog only while no other dialog is open
callFetchCatch_oneDialog(d, error) ==
  /\ pc[d] = "awaiting"
  /\ error \in Errors
  /\ inflight' = [inflight EXCEPT ![d] = Undefined]
  /\ caught' = [caught EXCEPT ![d] = <<error>>]
  /\ IF messageThrows(error)
     THEN /\ pc' = [pc EXCEPT ![d] = "threw"]
          /\ UNCHANGED <<cookie, location, modals, promise, log>>
     ELSE /\ cookie' = IF isUnauthorized(error) THEN Undefined ELSE cookie
          /\ location' = IF isUnauthorized(error) THEN LoginHref ELSE location
          /\ modals' = IF TruthyBool(Get(fetchOptions[d], "showErrorDialog")) /\ modals = <<>>
                       THEN Append(modals, [modal |-> MODAL_APPLICATION_ERROR,
                                            innerProps |-> [title |-> appError(error).title,
                                                            message |-> appError(error).message]])
                       ELSE modals
          /\ promise' = [promise EXCEPT ![d] = reject(promise[d], appError(error))]
          /\ log' = log \o sessionEffects(d, error)
                        \o (IF modals = <<>> THEN dialogEffects(d, fetchOptions[d], error) ELSE <<>>)
                        \o << [ev |-> "reject", d |-> d, reason |-> appError(error)] >>
          /\ pc' = [pc EXCEPT ![d] = "done"]
  /\ UNCHANGED <<DEV, authorization, fixture, fetchOptions, timer>>

\* the awaited transport call throws: the catch block of callFetch.  When the
\* block itself throws, callFetch ends with nothing done and the promise is left
\* as it was.
callFetchCatch(d, error) ==
  /\ pc[d] = "awaiting"
  /\ error \in Errors
  /\ inflight' = [inflight EXCEPT ![d] = Undefined]
  /\ caught' = [caught EXCEPT ![d] = <<error>>]
  /\ IF messageThrows(error)
     THEN /\ pc' = [pc EXCEPT ![d] = "threw"]
          /\ UNCHANGED <<cookie, location, modals, promise, log>>
     ELSE /\ cookie' = IF isUnauthorized(error) THEN Undefined ELSE cookie
          /\ location' = IF isUnauthorized(error) THEN LoginHref ELSE location
          /\ modals' = IF TruthyBool(Get(fetchOptions[d], "showErrorDialog"))
                       THEN Append(modals, [modal |-> MODAL_APPLICATION_ERROR,
                                            innerProps |-> [title |-> appError(error).title,
                                                            message |-> appError(error).message]])
                       ELSE modals
          /\ promise' = [promise EXCEPT ![d] = reject(promise[d], appError(error))]
          /\ log' = log \o sessionEffects(d, error)
                        \o dialogEffects(d, fetchOptions[d], error)
                        \o << [ev |-> "reject", d |-> d, reason |-> appError(error)] >>
          /\ pc' = [pc EXCEPT ![d] = "done"]
  /\ UNCHANGED <<DEV, authorization, fixture, fetchOptions, timer>>

\* no other dispatch has been started
Alone(d) == \A e \in Dispatches \ {d} : pc[e] = "idle"

\* One dispatch, with any caller options and any transport outcome.
Next ==
  \/ \E d \in Dispatches :
       /\ Alone(d) /\ pc[d] = "idle"
       /\ \E options \in FetcherOptions : createFetcher(d, options)
       /\ UNCHANGED <<callOptions, queries, mutation, storeVars>>
  \/ \E d \in Dispatches :
       Alone(d) /\ callFetch(d) /\ UNCHANGED <<callOptions, queries, mutation, storeVars>>
  \/ \E d \in Dispatches :
       /\ Alone(d) /\ pc[d] = "awaiting"
       /\ \E response \in Responses : callFetchResolve(d, response)
       /\ UNCHANGED <<callOptions, queries, mutation, storeVars>>
  \/ \E d \in Dispatches :
       /\ Alone(d) /\ pc[d] = "awaiting"
       /\ \E error \in Errors : callFetchCatch(d, error)
       /\ UNCHANGED <<callOptions, queries, mutation, storeVars>>

Spec == Init /\ [][Next]_vars

\* Two transport failures with a body: a 401 and a 500.
ConcErrors ==
  { [isAxiosError |-> TRUE, message |-> "Request failed",
     response |-> << [status |-> st, statusText |-> StatusText(st),
                      data |-> <<[message |-> <<"boom">>]>>] >>] :
      st \in {StatusUnauthorized, 500} }

\* One dispatch, with the options its caller passed kept beside the merged
\* ones, and three transport failures: those of ConcErrors, and a 500 with a
\* null body.
ArgsErrors ==
  ConcErrors \cup
  { [isAxiosError |-> TRUE, message |-> "Request failed",
     response |-> << [status |-> 500, statusText |-> StatusText(500), data |-> Undefined] >>] }
NextArgs ==
  \/ \E d \in Dispatches :
       /\ Alone(d) /\ pc[d] = "idle"
       /\ \E options \in FetcherOptions :
            /\ createFetcher(d, options)
            /\ callOptions' = [callOptions EXCEPT ![d] = options]
            /\ UNCHANGED <<queries, mutation, storeVars>>
  \/ \E d \in Dispatches :
       Alone(d) /\ callFetch(d) /\ UNCHANGED <<callOptions, queries, mutation, storeVars>>
  \/ \E d \in Dispatches :
       /\ Alone(d) /\ pc[d] = "awaiting"
       /\ \E response \in Responses : callFetchResolve(d, response)
       /\ UNCHANGED <<callOptions, queries, mutation, storeVars>>
  \/ \E d \in Dispatches :
       /\ Alone(d) /\ pc[d] = "awaiting"
       /\ \E error \in ArgsErrors : callFetchCatch(d, error)
       /\ UNCHANGED <<callOptions, queries, mutation, storeVars>>

SpecArgs == Init /\ [][NextArgs]_vars

\* Concurrent dispatches: the read of the demo list as the demo service issues
\* it, and the same call with the error dialog turned off, in any interleaving
\* of their timers and transport completions, with the failures of ConcErrors.
\* The session cookie is there at the start; the fixture file and every answer
\* of the server hold the same envelope.
ConcOptions ==
  { [url |-> <<DemoListUrl>>, params |-> <<DemoParams>>,
     jsonMockup |-> <<DemoListJson>>, delay |-> <<DemoDelay>>],
    [url |-> <<DemoListUrl>>, params |-> <<DemoParams>>,
     jsonMockup |-> <<DemoListJson>>, delay |-> <<DemoDelay>>,
     showErrorDialog |-> <<FALSE>>] }
NextConc ==
  \/ \E d \in ConcDispatches :
       /\ pc[d] = "idle"
       /\ \E options \in ConcOptions : createFetcher(d, options)
       /\ UNCHANGED <<callOptions, queries, mutation, storeVars>>
  \/ \E d \in ConcDispatches :
       callFetch(d) /\ UNCHANGED <<callOptions, queries, mutation, storeVars>>
  \/ \E d \in ConcDispatches :
       /\ pc[d] = "awaiting"
       /\ callFetchResolve(d, OkResponse(fixture))
       /\ UNCHANGED <<callOptions, queries, mutation, storeVars>>
  \/ \E d \in ConcDispatches :
       /\ pc[d] = "awaiting"
       /\ \E error \in ConcErrors : callFetchCatch(d, error)
       /\ UNCHANGED <<callOptions, queries, mutation, storeVars>>

InitConc ==
  /\ Init
  /\ cookie = <<"token">>
  /\ fixture = [code |-> EnvelopeCode, message |-> "success", data |-> [id |-> 1, name |-> "a"]]

SpecConc == InitConc /\ [][NextConc]_vars

\* select: (data) => data.data of the read hook
select(data) == data.data

(***************************************************************************)
(* The hooks of the demo resource: useDemoList reads through useQuery      *)
(* under the key ['demoList', params], useCreateDemo writes through        *)
(* useMutation and invalidates the key ['demoList'] on success.  The query *)
(* client is the one getQueryClient creates: staleTime of a minute, no     *)
(* retry, no refetch on window focus.  A call of the queryFn is a dispatch *)
(* of fetchDemoList(params); its outcome is the dispatch's.                *)
(***************************************************************************)
fetcherVars == <<DEV, cookie, authorization, location, fixture, modals, pc,
                 fetchOptions, timer, inflight, promise, caught, log, callOptions>>

\* a filter key matches every key it is a prefix of
partialMatch(filterKey, key) ==
  /\ Len(filterKey) <= Len(key)
  /\ \A i \in 1..Len(filterKey) : key[i] = filterKey[i]

\* an entry is stale when invalidated, without data, or older than staleTime
isStale(q) == q.isInvalidated \/ ~q.hasData \/ ~q.fresh

\* query.fetch: a fetch already in flight is kept (and no queryFn call made)
\* unless the entry holds data and the caller asked to cancel it; otherwise
\* the queryFn is called
keepsFetch(q, cancelRefetch) ==
  q.fetchStatus = "fetching" /\ ~(q.hasData /\ cancelRefetch)
fetch(q, cancelRefetch) ==
  IF keepsFetch(q, cancelRefetch) THEN q
  ELSE [q EXCEPT !.fetchStatus = "fetching",
                 !.status = IF q.hasData THEN @ ELSE "pending",
                 !.dispatches = @ + 1,
                 !.owed = FALSE]

\* a component that calls useDemoList(params) mounts, beside those that use
\* the same key already: the entry is created if it is not there, and fetched
\* if it is stale
useDemoList(params) ==
  LET k == queryKey(params)
      q0 == IF queries[k].exists THEN queries[k]
            ELSE [NoQuery EXCEPT !.exists = TRUE, !.dispatches = queries[k].dispatches]
      q1 == [q0 EXCEPT !.observers = @ + 1]
      q2 == IF isStale(q1) THEN fetch(q1, FALSE) ELSE q1 IN
  /\ queries[k].observers < MaxObservers
  /\ q2.dispatches <= MaxFetch
  /\ queries' = [queries EXCEPT ![k] = q2]
  /\ UNCHANGED <<mutation, fetcherVars, storeVars>>

\* the component unmounts; a fetch in flight goes on
unmount(params) ==
  LET k == queryKey(params) IN
  /\ queries[k].observers > 0
  /\ queries' = [queries EXCEPT ![k].observers = @ - 1]
  /\ UNCHANGED <<mutation, fetcherVars, storeVars>>

\* demoList.refetch() of the Query page, whose button is disabled (loading)
\* while the entry is fetching
refetch(params) ==
  LET k == queryKey(params)
      q == fetch(queries[k], TRUE) IN
  /\ queries[k].observers > 0
  /\ queries[k].fetchStatus = "idle"
  /\ q.dispatches <= MaxFetch
  /\ queries' = [queries EXCEPT ![k] = q]
  /\ UNCHANGED <<mutation, fetcherVars, storeVars>>

\* the promise of the queryFn resolves
querySuccess(params) ==
  LET k == queryKey(params) IN
  /\ queries[k].fetchStatus = "fetching"
  /\ queries' = [queries EXCEPT ![k] =
                   [@ EXCEPT !.hasData = TRUE, !.status = "success", !.fetchStatus = "idle",
                             !.isInvalidated = FALSE, !.fresh = TRUE]]
  /\ UNCHANGED <<mutation, fetcherVars, storeVars>>

\* the promise of the queryFn rejects; retry: false
queryError(params) ==
  LET k == queryKey(params) IN
  /\ queries[k].fetchStatus = "fetching"
  /\ queries' = [queries EXCEPT ![k] = [@ EXCEPT !.status = "error", !.fetchStatus = "idle"]]
  /\ UNCHANGED <<mutation, fetcherVars, storeVars>>

\* staleTime: 60 * 1000 has passed since the data arrived
staleTimeElapsed(params) ==
  LET k == queryKey(params) IN
  /\ queries[k].exists /\ queries[k].fresh
  /\ queries' = [queries EXCEPT ![k].fresh = FALSE]
  /\ UNCHANGED <<mutation, fetcherVars, storeVars>>

\* an entry no hook uses and no fetch is filling is dropped from the cache
gc(params) ==
  LET k == queryKey(params) IN
  /\ queries[k].exists /\ queries[k].observers = 0 /\ queries[k].fetchStatus = "idle"
  /\ queries' = [queries EXCEPT ![k] = [NoQuery EXCEPT !.dispatches = queries[k].dispatches]]
  /\ UNCHANGED <<mutation, fetcherVars, storeVars>>

\* create.mutate(body) of the Form page
mutate ==
  /\ mutation # "pending"
  /\ mutation' = "pending"
  /\ UNCHANGED <<queries, fetcherVars, storeVars>>

\* invalidateQueries({ queryKey }): every entry the key matches is marked
\* invalidated, and those a mounted hook uses are fetched again
invalidateQueries(filterKey) ==
  [k \in QueryKeys |->
     IF queries[k].exists /\ partialMatch(filterKey, k)
     THEN LET q == [queries[k] EXCEPT !.isInvalidated = TRUE, !.owed = TRUE] IN
          IF q.observers > 0 THEN fetch(q, TRUE) ELSE q
     ELSE queries[k]]

\* fetchDemoCreate resolves: onSuccess of useCreateDemo
onSuccess ==
  /\ mutation = "pending"
  /\ mutation' = "success"
  /\ \A k \in QueryKeys : invalidateQueries(<<ResourceName>>)[k].dispatches <= MaxFetch
  /\ queries' = invalidateQueries(<<ResourceName>>)
  /\ UNCHANGED <<fetcherVars, storeVars>>

\* fetchDemoCreate rejects: nothing is invalidated
mutationError ==
  /\ mutation = "pending"
  /\ mutation' = "error"
  /\ UNCHANGED <<queries, fetcherVars, storeVars>>

NextQuery ==
  \/ \E params \in Params : useDemoList(params)
  \/ \E params \in Params : unmount(params)
  \/ \E params \in Params : refetch(params)
  \/ \E params \in Params : querySuccess(params)
  \/ \E params \in Params : queryError(params)
  \/ \E params \in Params : staleTimeElapsed(params)
  \/ \E params \in Params : gc(params)
  \/ mutate
  \/ onSuccess
  \/ mutationError

InitQuery == InitConc /\ DEV

SpecQuery == InitQuery /\ [][NextQuery]_vars

(***************************************************************************)
(* The read hook over the dispatcher.  A call of the queryFn is a dispatch *)
(* of fetchDemoList(params), the next one not yet started; the entry       *)
(* follows the promise of the latest dispatch made for its key, and a      *)
(* dispatch it no longer follows runs on, for createFetcher takes no abort *)
(* signal.                                                                 *)
(***************************************************************************)
\* fetchDemoList(params): the options the demo service passes to createFetcher
fetchDemoList(params) ==
  [url |-> <<DemoListUrl>>, jsonMockup |-> <<DemoListJson>>,
   delay |-> <<DemoDelay>>, params |-> <<params>>]

\* the dispatches made by the queryFn of key k
DispatchesOf(k) ==
  { d \in Dispatches : pc[d] # "idle" /\ queryKey(callOptions[d].params[1]) = k }
\* the dispatch whose promise the entry of key k follows: the latest, 0 if none
following(k) ==
  IF DispatchesOf(k) = {} THEN 0
  ELSE CHOOSE d \in DispatchesOf(k) : \A e \in DispatchesOf(k) : e <= d

\* the queryFn is called: the next dispatch starts
queryFn(params) ==
  \E d \in Dispatches :
    /\ pc[d] = "idle"
    /\ \A e \in Dispatches : pc[e] = "idle" => d <= e
    /\ createFetcher(d, fetchDemoList(params))
    /\ callOptions' = [callOptions EXCEPT ![d] = fetchDemoList(params)]

\* the entry q of key queryKey(params) is fetched: the queryFn is called unless
\* a fetch in flight is kept
fetchQuery(params, q, cancelRefetch) ==
  /\ fetch(q, cancelRefetch).dispatches <= MaxFetch
  /\ queries' = [queries EXCEPT ![queryKey(params)] = fetch(q, cancelRefetch)]
  /\ IF keepsFetch(q, cancelRefetch) THEN UNCHANGED fetcherVars ELSE queryFn(params)

\* a component that calls useDemoList(params) mounts
mountQuery(params) ==
  LET k == queryKey(params)
      q0 == IF queries[k].exists THEN queries[k]
            ELSE [NoQuery EXCEPT !.exists = TRUE, !.dispatches = queries[k].dispatches]
      q1 == [q0 EXCEPT !.observers = @ + 1] IN
  /\ queries[k].observers < MaxObservers
  /\ IF isStale(q1) THEN fetchQuery(params, q1, FALSE)
     ELSE queries' = [queries EXCEPT ![k] = q1] /\ UNCHANGED fetcherVars
  /\ UNCHANGED <<mutation, storeVars>>

\* demoList.refetch(), whose button is disabled (loading) while the entry is
\* fetching
refetchQuery(params) ==
  /\ queries[queryKey(params)].observers > 0
  /\ queries[queryKey(params)].fetchStatus = "idle"
  /\ fetchQuery(params, queries[queryKey(params)], TRUE)
  /\ UNCHANGED <<mutation, storeVars>>

\* the promise the entry follows is fulfilled
queryFulfilled(params) ==
  LET k == queryKey(params) IN
  /\ queries[k].fetchStatus = "fetching"
  /\ following(k) # 0
  /\ promise[following(k)].state = "fulfilled"
  /\ queries' = [queries EXCEPT ![k] =
                   [@ EXCEPT !.hasData = TRUE, !.status = "success", !.fetchStatus = "idle",
                             !.isInvalidated = FALSE, !.fresh = TRUE]]
  /\ UNCHANGED <<mutation, fetcherVars, storeVars>>

\* the promise the entry follows is rejected; retry: false
queryRejected(params) ==
  LET k == queryKey(params) IN
  /\ queries[k].fetchStatus = "fetching"
  /\ following(k) # 0
  /\ promise[following(k)].state = "rejected"
  /\ queries' = [queries EXCEPT ![k] = [@ EXCEPT !.status = "error", !.fetchStatus = "idle"]]
  /\ UNCHANGED <<mutation, fetcherVars, storeVars>>

\* fetchDemoCreate resolves: onSuccess of useCreateDemo starts
\* invalidateQueries({ queryKey: ['demoList'] }), which first marks every
\* entry the key matches
invalidateMatching ==
  /\ mutation = "pending"
  /\ mutation' = "invalidating"
  /\ queries' = [k \in QueryKeys |->
                  IF queries[k].exists /\ partialMatch(<<ResourceName>>, k)
                  THEN [queries[k] EXCEPT !.isInvalidated = TRUE, !.owed = TRUE]
                  ELSE queries[k]]
  /\ UNCHANGED <<fetcherVars, storeVars>>

\* an entry invalidateQueries has marked and still has to fetch again: one a
\* mounted hook uses, unless its fetch in flight is kept
toRefetch(k) ==
  /\ queries[k].exists /\ queries[k].owed /\ queries[k].observers > 0
  /\ ~keepsFetch(queries[k], TRUE)

\* invalidateQueries goes on: it fetches a marked entry again, cancelling the
\* fetch the entry follows
refetchInvalidated(params) ==
  /\ mutation = "invalidating"
  /\ toRefetch(queryKey(params))
  /\ fetchQuery(params, queries[queryKey(params)], TRUE)
  /\ UNCHANGED <<mutation, storeVars>>

\* invalidateQueries is through
invalidated ==
  /\ mutation = "invalidating"
  /\ \A k \in QueryKeys : ~toRefetch(k)
  /\ mutation' = "success"
  /\ UNCHANGED <<queries, fetcherVars, storeVars>>

\* the failures of a read's transport call: a 500 with a body and one with a
\* null body
ReadErrors == { error \in ArgsErrors : ~isUnauthorized(error) }

\* The reads, the writes and the dispatches of the reads, while the components
\* that read stay mounted and within staleTime of the data's arrival.
\* invalidateQueries runs within one task: nothing else happens meanwhile.
NextRead ==
  \/ \E params \in Params : mutation # "invalidating" /\ mountQuery(params)
  \/ \E params \in Params : mutation # "invalidating" /\ refetchQuery(params)
  \/ \E d \in Dispatches :
       /\ mutation # "invalidating"
       /\ callFetch(d)
       /\ UNCHANGED <<callOptions, queries, mutation, storeVars>>
  \/ \E d \in Dispatches :
       /\ mutation # "invalidating" /\ pc[d] = "awaiting"
       /\ callFetchResolve(d, OkResponse(fixture))
       /\ UNCHANGED <<callOptions, queries, mutation, storeVars>>
  \/ \E d \in Dispatches :
       /\ mutation # "invalidating" /\ pc[d] = "awaiting"
       /\ \E error \in ReadErrors : callFetchCatch(d, error)
       /\ UNCHANGED <<callOptions, queries, mutation, storeVars>>
  \/ \E params \in Params : mutation # "invalidating" /\ queryFulfilled(params)
  \/ \E params \in Params : mutation # "invalidating" /\ queryRejected(params)
  \/ mutate
  \/ invalidateMatching
  \/ \E params \in Params : refetchInvalidated(params)
  \/ invalidated

SpecRead == InitQuery /\ [][NextRead]_vars

(***************************************************************************)
(* The counter store: useCounterStore, with the three buttons of the Store *)
(* page calling its actions in any order.                                  *)
(***************************************************************************)
\* increase: () => set((state) => ({ count: state.count + 1 }))
increase ==
  /\ Len(calls) < MaxCalls
  /\ count' = count + 1
  /\ calls' = Append(calls, "increase")
  /\ UNCHANGED <<fetcherVars, queries, mutation>>

\* a decrease that stops at 0
decrease_clamped ==
  /\ Len(calls) < MaxCalls
  /\ count' = IF count > 0 THEN count - 1 ELSE 0
  /\ calls' = Append(calls, "decrease")
  /\ UNCHANGED <<fetcherVars, queries, mutation>>

\* decrease: () => set((state) => ({ count: state.count - 1 }))
decrease ==
  /\ Len(calls) < MaxCalls
  /\ count' = count - 1
  /\ calls' = Append(calls, "decrease")
  /\ UNCHANGED <<fetcherVars, queries, mutation>>

\* reset: () => set({ count: 0 })
reset ==
  /\ Len(calls) < MaxCalls
  /\ count' = 0
  /\ calls' = Append(calls, "reset")
  /\ UNCHANGED <<fetcherVars, queries, mutation>>

NextCounter == increase \/ decrease \/ reset

InitCounter == InitQuery

SpecCounter == InitCounter /\ [][NextCounter]_vars

(***************************************************************************)
(* What the claims speak of.                                               *)
(***************************************************************************)
Started(d) == pc[d] # "idle"
Failed(d) == caught[d] # Undefined
Failed401(d) ==
  /\ Failed(d)
  /\ caught[d][1].isAxiosError
  /\ caught[d][1].response # Undefined
  /\ caught[d][1].response[1].status = StatusUnauthorized
Fulfilled(d) == promise[d].state = "fulfilled"
Rejected(d) == promise[d].state = "rejected"
\* callFetch has run to its end, by a return or by an exception
Ended(d) == pc[d] \in {"done", "threw"}
\* where in the log dispatch d performed effect ev
EventIndexes(d, ev) == { i \in 1..Len(log) : log[i].d = d /\ log[i].ev = ev }
ShowErrorDialog(d) == Get(fetchOptions[d], "showErrorDialog")
\* the dispatch issued a GET of the fixture address
TookFixturePath(d) ==
  \E i \in EventIndexes(d, "request") :
    log[i].request.method = "GET" /\ log[i].request.url = DemoListJson
IsEnvelope(body) == DOMAIN body = {"code", "message", "data"}
\* the error carries a response whose body has a non-empty message
HasBodyMessage(error) ==
  /\ error.isAxiosError
  /\ error.response # Undefined
  /\ error.response[1].data # Undefined
  /\ TruthyStr(Get(error.response[1].data[1], "message"))

\* C1: a dispatch whose transport call failed with status 401 rejects, the SID
\* cookie is gone and a navigation to /login was issued, whatever showErrorDialog is.
C1_Claim ==
  \A d \in Dispatches :
    Failed401(d) =>
      /\ Rejected(d)
      /\ cookie = Undefined
      /\ location = LoginHref
      /\ EventIndexes(d, "removeCookie") # {}
      /\ EventIndexes(d, "navigate") # {}

\* C2: a failed dispatch with showErrorDialog = true opens exactly one context
\* modal, under the error-modal key, with the title and message of the rejection,
\* before it rejects; with showErrorDialog = false it opens none.
C2_Claim ==
  \A d \in Dispatches :
    Failed(d) =>
      /\ ShowErrorDialog(d) = <<TRUE>> =>
           /\ Cardinality(EventIndexes(d, "openContextModal")) = 1
           /\ Rejected(d)
           /\ \A i \in EventIndexes(d, "openContextModal") :
                /\ log[i].modal = MODAL_APPLICATION_ERROR
                /\ log[i].innerProps = promise[d].reason[1]
                /\ \A j \in EventIndexes(d, "reject") : i < j
      /\ ShowErrorDialog(d) = <<FALSE>> => EventIndexes(d, "openContextModal") = {}

\* C3: once the timer has fired and the transport call has completed, the
\* promise of the dispatch is fulfilled or rejected, whatever the outcome was.
C3_Claim ==
  \A d \in Dispatches : Ended(d) => (Fulfilled(d) \/ Rejected(d))

\* C4: every failure is delivered as a rejection whose title and message are
\* both non-empty.
C4_Claim ==
  \A d \in Dispatches :
    Failed(d) =>
      /\ Rejected(d)
      /\ promise[d].reason[1].title # ""
      /\ promise[d].reason[1].message # ""

\* C5 as stated: with an envelope as the fixture, a dispatch on the fixture
\* path resolves with the envelope's data field only.
C5_Claim ==
  \A d \in Dispatches :
    (TookFixturePath(d) /\ IsEnvelope(fixture) /\ Fulfilled(d)) =>
      promise[d].value = <<fixture.data>>

\* C5 as amended: with an envelope as the fixture, a dispatch on the fixture
\* path resolves with the whole envelope; its data field is what the read
\* hook's select then takes from that value.
C5_Amended ==
  \A d \in Dispatches :
    (TookFixturePath(d) /\ IsEnvelope(fixture) /\ Fulfilled(d)) =>
      /\ promise[d].value = <<fixture>>
      /\ select(promise[d].value[1]) = fixture.data

C5_Witness ==
  \E d \in Dispatches :
    /\ TookFixturePath(d) /\ IsEnvelope(fixture) /\ Fulfilled(d)
    /\ fixture.data = [id |-> 1, name |-> "a"]

\* C6: on the fixture path the promise resolves with exactly the parsed JSON of
\* the fixture file, whatever the file holds.
C6_NoTransformation ==
  \A d \in Dispatches :
    (TookFixturePath(d) /\ Fulfilled(d)) => promise[d].value = <<fixture>>

C6_Witness ==
  \E d \in Dispatches :
    /\ TookFixturePath(d) /\ Fulfilled(d)
    /\ fixture = [code |-> EnvelopeCode, message |-> "success",
                  data |-> [id |-> MaxData, name |-> "a"]]

\* C7: a failure whose response has status text S and a body with a non-empty
\* message M rejects with exactly {title: S, message: M}.
C7_BodyMessage ==
  \A d \in Dispatches :
    (Failed(d) /\ HasBodyMessage(caught[d][1])) =>
      /\ Rejected(d)
      /\ promise[d].reason =
           << [title |-> caught[d][1].response[1].statusText,
               message |-> caught[d][1].response[1].data[1].message[1]] >>

C7_Witness ==
  \E d \in Dispatches :
    /\ Failed(d) /\ HasBodyMessage(caught[d][1])
    /\ caught[d][1].response[1].status = 500
    /\ caught[d][1].message # ""
    /\ promise[d].reason = << [title |-> "Internal Server Error", message |-> "boom"] >>

\* the message the stated precedence yields: the body's, else the error's own,
\* else the generic fallback
PrecedenceMessage(error) ==
  IF HasBodyMessage(error) THEN error.response[1].data[1].message[1]
  ELSE IF error.message # "" THEN error.message
  ELSE FallbackMessage

\* C8: the message of a rejection caused by a transport error is the body's
\* message, else the error's own message, else the generic fallback message.
C8_Claim ==
  \A d \in Dispatches :
    (Rejected(d) /\ caught[d][1].isAxiosError) =>
      promise[d].reason[1].message = PrecedenceMessage(caught[d][1])

\* C9: shouldUseMockup is false for the options of every dispatch with
\* mock = false, and for the options of every dispatch of a build that is not a
\* development build.
C9_MockOffOrNotDev ==
  \A d \in Dispatches :
    (Started(d) /\ (Get(fetchOptions[d], "mock") = <<FALSE>> \/ ~DEV)) =>
      ~shouldUseMockup(fetchOptions[d])

C9_Witness ==
  \E d \in Dispatches :
    /\ pc[d] = "awaiting"
    /\ ~DEV
    /\ Get(fetchOptions[d], "mock") = <<TRUE>>
    /\ Get(fetchOptions[d], "jsonMockup") = <<DemoListJson>>
    /\ inflight[d][1].url = DemoListUrl

\* C10: with mock = true, a non-empty jsonMockup and a development build,
\* shouldUseMockup is true and the request the dispatch issues is the GET of
\* the fixture address.
C10_MockOn ==
  \A d \in Dispatches :
    (/\ Started(d)
     /\ DEV
     /\ Get(fetchOptions[d], "mock") = <<TRUE>>
     /\ TruthyStr(Get(fetchOptions[d], "jsonMockup"))) =>
      /\ shouldUseMockup(fetchOptions[d])
      /\ pc[d] # "scheduled" => EventIndexes(d, "request") # {}
      /\ \A i \in EventIndexes(d, "request") :
           /\ log[i].request.method = "GET"
           /\ log[i].request.url = Get(fetchOptions[d], "jsonMockup")[1]

C10_Witness ==
  \E d \in Dispatches :
    /\ pc[d] = "awaiting"
    /\ DEV
    /\ Get(fetchOptions[d], "mock") = <<TRUE>>
    /\ Get(fetchOptions[d], "jsonMockup") = <<DemoListJson>>
    /\ Get(fetchOptions[d], "method") = <<"POST">>
    /\ inflight[d][1].method = "GET"
    /\ inflight[d][1].url = DemoListJson

\* the merged options carry no usable fixture path: none, or the empty string
NoFixturePath(d) == ~TruthyStr(Get(fetchOptions[d], "jsonMockup"))

\* C11: for merged options with no usable fixture path (jsonMockup omitted,
\* empty, or passed as undefined) shouldUseMockup is false and the request the
\* dispatch issues is the live one, never a GET of a missing fixture address.
C11_Claim ==
  \A d \in Dispatches :
    (Started(d) /\ NoFixturePath(d)) =>
      /\ ~shouldUseMockup(fetchOptions[d])
      /\ \A i \in EventIndexes(d, "request") :
           log[i].request.url = TemplateString(Get(fetchOptions[d], "url"))

\* how many times dispatch d performed effect ev
Count(d, ev) == Cardinality(EventIndexes(d, ev))

\* C13: a dispatch issues exactly one transport call once its timer has fired
\* (none before), and at most one cookie removal, one navigation and one modal
\* open; the call is never issued again after a failure.
C13_OneOfEach ==
  \A d \in Dispatches :
    /\ Count(d, "request") = (IF pc[d] \in {"idle", "scheduled"} THEN 0 ELSE 1)
    /\ Count(d, "removeCookie") <= 1
    /\ Count(d, "navigate") <= 1
    /\ Count(d, "openContextModal") <= 1
    /\ Failed(d) => pc[d] \in {"done", "threw"}

C13_Witness ==
  \E d \in Dispatches :
    /\ Failed401(d) /\ Rejected(d)
    /\ Count(d, "request") = 1
    /\ Count(d, "removeCookie") = 1
    /\ Count(d, "navigate") = 1
    /\ Count(d, "openContextModal") = 1

\* C18: when shouldUseMockup is true the request is exactly a GET of the fixture
\* path, without the caller's method, url and params; otherwise it is the
\* request the merged options describe; either way the promise resolves with
\* the body of the transport's response.
C18_RequestShape ==
  \A d \in Dispatches :
    /\ \A i \in EventIndexes(d, "request") :
         IF shouldUseMockup(fetchOptions[d])
         THEN /\ log[i].request.method = "GET"
              /\ log[i].request.url = TemplateString(Get(fetchOptions[d], "jsonMockup"))
              /\ log[i].request.params = Undefined
         ELSE /\ log[i].request.method =
                   (IF "method" \in DOMAIN fetchOptions[d]
                    THEN fetchOptions[d].method[1] ELSE "GET")
              /\ log[i].request.url = fetchOptions[d].url[1]
              /\ log[i].request.params = fetchOptions[d].params
    /\ Fulfilled(d) =>
         /\ Count(d, "response") = 1
         /\ \A j \in EventIndexes(d, "response") :
              promise[d].value = <<log[j].response.data>>

C18_Witness ==
  \E d \in Dispatches :
    /\ Fulfilled(d)
    /\ shouldUseMockup(fetchOptions[d])
    /\ Get(fetchOptions[d], "method") = <<"POST">>
    /\ \E i \in EventIndexes(d, "request") :
         /\ log[i].request.method = "GET"
         /\ log[i].request.url = DemoListJson

\* C19: createFetcher returns a pending promise with a timer set and no
\* transport call issued, for every delay (0 and none included); the call is
\* issued only by the later step in which that timer fires, and a dispatch sets
\* one timer and issues one call.
C19_Deferred ==
  /\ [](\A d \in Dispatches :
          /\ Count(d, "setTimeout") = (IF Started(d) THEN 1 ELSE 0)
          /\ Count(d, "request") <= 1
          /\ pc[d] = "scheduled" =>
               (promise[d].state = "pending" /\ timer[d] # Undefined /\ Count(d, "request") = 0))
  /\ [][\A d \in Dispatches :
          /\ (pc[d] = "idle" /\ pc'[d] # "idle") =>
               (pc'[d] = "scheduled" /\ inflight'[d] = Undefined)
          /\ (inflight[d] = Undefined /\ inflight'[d] # Undefined) =>
               (pc[d] = "scheduled" /\ timer[d] # Undefined /\ timer'[d] = Undefined)]_vars

C19_Witness ==
  \E d \in Dispatches :
    /\ pc[d] = "scheduled"
    /\ Get(fetchOptions[d], "delay") = <<0>>
    /\ timer[d] = <<0>>
    /\ promise[d].state = "pending"
    /\ Count(d, "request") = 0

\* C20: the timer is set to the merged delay as it is, never multiplied by
\* 1000: a delay above 0 schedules after that many units, a delay of 0 or no
\* delay schedules after 0.
C20_RawDelay ==
  \A d \in Dispatches :
    \A i \in EventIndexes(d, "setTimeout") :
      log[i].ms = (IF Get(fetchOptions[d], "delay") = Undefined THEN 0
                   ELSE Get(fetchOptions[d], "delay")[1])

C20_Witness ==
  \E d \in Dispatches :
    /\ Get(fetchOptions[d], "delay") = <<DemoDelay>>
    /\ timer[d] = <<DemoDelay>>
    /\ \E i \in EventIndexes(d, "setTimeout") : log[i].ms = DemoDelay

\* C16: the merged options are the defaults {mock: true, jsonMockup: '',
\* delay: 0, timeout: 0, showErrorDialog: true} overlaid with the caller's:
\* a key the caller leaves out has its default, a key the caller passes has
\* the caller's value; so without `mock` the call is mock-enabled and without
\* `showErrorDialog` a failure opens the dialog.
C16_Claim ==
  \A d \in Dispatches :
    Started(d) =>
      /\ DOMAIN fetchOptions[d] =
           {"mock", "jsonMockup", "delay", "timeout", "showErrorDialog"}
             \cup DOMAIN callOptions[d]
      /\ \A k \in DOMAIN callOptions[d] : fetchOptions[d][k] = callOptions[d][k]
      /\ "mock" \notin DOMAIN callOptions[d] => fetchOptions[d].mock = <<TRUE>>
      /\ "jsonMockup" \notin DOMAIN callOptions[d] => fetchOptions[d].jsonMockup = <<"">>
      /\ "delay" \notin DOMAIN callOptions[d] => fetchOptions[d].delay = <<0>>
      /\ "timeout" \notin DOMAIN callOptions[d] => fetchOptions[d].timeout = <<0>>
      /\ "showErrorDialog" \notin DOMAIN callOptions[d] =>
           /\ fetchOptions[d].showErrorDialog = <<TRUE>>
           /\ Failed(d) => Count(d, "openContextModal") = 1

\* C14: every request carries the bearer token made from the SID cookie as it
\* was when the client was constructed; the header never changes afterwards,
\* so a request issued after a 401 failure removed the cookie still carries
\* the token of the removed cookie.
C14_TokenAtConstruction ==
  /\ authorization = "Bearer " \o TemplateString(cookie)
  /\ [][authorization' = authorization]_vars
  /\ [](\A i \in 1..Len(log) :
          log[i].ev = "request" => log[i].request.Authorization = authorization)

C14_Witness ==
  /\ ~DEV
  /\ cookie = Undefined
  /\ authorization = "Bearer token"
  /\ \E i, j \in 1..Len(log) :
       /\ i < j
       /\ log[i].ev = "removeCookie"
       /\ log[j].ev = "request"
       /\ log[j].request.url = DemoListUrl
       /\ log[j].request.Authorization = "Bearer token"

\* the outcome of a dispatch is that of its own options and transport result:
\* the body of its own response, or the ServiceError of its own failure, and a
\* dialog of its own exactly when it rejected with showErrorDialog on
OwnOutcome(d) ==
  /\ Fulfilled(d) =>
       /\ ~Failed(d)
       /\ \A j \in EventIndexes(d, "response") : promise[d].value = <<log[j].response.data>>
  /\ Rejected(d) =>
       /\ Failed(d)
       /\ promise[d].reason = <<appError(caught[d][1])>>
  /\ Count(d, "openContextModal") =
       (IF Rejected(d) /\ TruthyBool(ShowErrorDialog(d)) THEN 1 ELSE 0)
  /\ \A i \in EventIndexes(d, "openContextModal") : log[i].innerProps = promise[d].reason[1]
\* the dispatches whose failure handling cleared the session
Cleared == { d \in Dispatches : Failed401(d) /\ Rejected(d) }
\* the dispatches whose failure handling opened a dialog
Dialogued == { d \in Dispatches : Rejected(d) /\ TruthyBool(ShowErrorDialog(d)) }

\* C15 as stated: under every interleaving each dispatch has the outcome of its
\* own options and transport result, and the only shared state a step of a
\* dispatch writes is the session cookie, from present to cleared.
C15_Claim ==
  /\ [](\A d \in Dispatches : OwnOutcome(d))
  /\ [][/\ cookie' \in {cookie, Undefined}
        /\ location' = location
        /\ modals' = modals]_vars

\* C15 as amended: under every interleaving each dispatch has the outcome of
\* its own options and transport result; the shared state written is the
\* session cookie (only from present to cleared), the window location (only to
\* /login) and the stack of open modals (only by appending one dialog); cookie,
\* location and the dialogs open, counted per content, are determined by the
\* dispatches' own results whatever the order of the steps was.
C15_Amended ==
  /\ [](/\ \A d \in Dispatches : OwnOutcome(d)
        /\ cookie = (IF Cleared # {} THEN Undefined ELSE <<"token">>)
        /\ location = (IF Cleared # {} THEN LoginHref ELSE HomeHref)
        /\ Len(modals) = Cardinality(Dialogued)
        /\ \A d \in Dialogued :
             Cardinality({ k \in 1..Len(modals) : modals[k].innerProps = promise[d].reason[1] })
               = Cardinality({ e \in Dialogued : promise[e].reason = promise[d].reason }))
  /\ [][/\ cookie' \in {cookie, Undefined}
        /\ location' \in {location, LoginHref}
        /\ modals' = modals \/ (Len(modals') = Len(modals) + 1 /\ SubSeq(modals', 1, Len(modals)) = modals)]_vars

\* two dispatches in flight together, the one started later failing first: both
\* dialogs are open, in the order of the failures
C15_Witness ==
  \E d, e \in Dispatches :
    /\ d # e
    /\ Rejected(d) /\ Rejected(e)
    /\ Failed401(e) /\ ~Failed401(d)
    /\ \E i \in EventIndexes(d, "setTimeout"), j \in EventIndexes(e, "setTimeout"),
          k \in EventIndexes(e, "reject"), l \in EventIndexes(d, "request"),
          m \in EventIndexes(d, "reject") :
         i < j /\ l < k /\ k < m
    /\ Len(modals) = 2
    /\ modals[1].innerProps = promise[e].reason[1]
    /\ modals[2].innerProps = promise[d].reason[1]
    /\ cookie = Undefined /\ location = LoginHref

\* C12: when a mutation through useCreateDemo succeeds, every cache entry
\* whose key starts with 'demoList' is marked invalidated in that step; an
\* entry a read hook is using has had its queryFn called since, and the next
\* mount of a read hook on any other such entry calls it.
C12_Claim ==
  /\ [][(mutation = "pending" /\ mutation' = "success") =>
          \A k \in QueryKeys :
            (queries[k].exists /\ k[1] = ResourceName) => queries'[k].isInvalidated]_vars
  /\ [](\A k \in QueryKeys : queries[k].observers > 0 => ~queries[k].owed)
  /\ [][\A k \in QueryKeys :
          (queries[k].owed /\ queries[k].observers = 0 /\ queries'[k].observers = 1) =>
            queries'[k].dispatches = queries[k].dispatches + 1]_vars

\* every effect ev of dispatch d comes before every effect ew of it
Before(d, ev, ew) ==
  \A i \in EventIndexes(d, ev), j \in EventIndexes(d, ew) : i < j

\* C21: within a failed dispatch the cookie removal comes before the
\* navigation, both before the dialog open, and all of them before the
\* rejection; removal and navigation belong to 401 failures only, and a
\* rejected dispatch has performed them (for a 401) and opened its dialog (with
\* showErrorDialog on) by the time it rejects.
C21_Order ==
  \A d \in Dispatches :
    /\ Before(d, "removeCookie", "navigate")
    /\ Before(d, "navigate", "openContextModal")
    /\ Before(d, "removeCookie", "reject")
    /\ Before(d, "navigate", "reject")
    /\ Before(d, "openContextModal", "reject")
    /\ (EventIndexes(d, "removeCookie") # {} \/ EventIndexes(d, "navigate") # {}) => Failed401(d)
    /\ EventIndexes(d, "openContextModal") # {} => Failed(d)
    /\ Rejected(d) =>
         /\ Failed401(d) => (Count(d, "removeCookie") = 1 /\ Count(d, "navigate") = 1)
         /\ TruthyBool(ShowErrorDialog(d)) => Count(d, "openContextModal") = 1
         /\ Count(d, "reject") = 1

C21_Witness ==
  \E d \in Dispatches :
    /\ Failed401(d) /\ Rejected(d)
    /\ \E i \in EventIndexes(d, "removeCookie"), j \in EventIndexes(d, "navigate"),
          k \in EventIndexes(d, "openContextModal"), m \in EventIndexes(d, "reject") :
         i < j /\ j < k /\ k < m

\* C24: the cookie is removed and the navigation issued only by a dispatch
\* that failed with status 401: a state in which the dispatcher has removed
\* the cookie or navigated has such a dispatch, and a step changes the cookie
\* or the location only when it is the failure handling of a 401.
C24_Only401 ==
  /\ []((\/ \E i \in 1..Len(log) : log[i].ev \in {"removeCookie", "navigate"}
         \/ location # HomeHref
         \/ (cookie = Undefined /\ authorization # "Bearer undefined"))
        => \E d \in Dispatches : Failed401(d))
  /\ [][(cookie' # cookie \/ location' # location) =>
          \E d \in Dispatches :
            /\ caught[d] = Undefined /\ caught'[d] # Undefined
            /\ caught'[d][1].isAxiosError
            /\ caught'[d][1].response # Undefined
            /\ caught'[d][1].response[1].status = StatusUnauthorized]_vars

\* a dispatch was rejected for a failure with another status, and the session
\* is as it was
C24_Witness ==
  \E d \in Dispatches :
    /\ Rejected(d)
    /\ caught[d][1].isAxiosError
    /\ caught[d][1].response # Undefined
    /\ caught[d][1].response[1].status = 500
    /\ cookie = <<"token">>
    /\ location = HomeHref

\* the effects dispatch d has performed, in order
OwnLog(d) == SelectSeq(log, LAMBDA e : e.d = d)

\* C25: a dispatch calls resolve or reject at most once and never both; its
\* promise is fulfilled exactly when it called resolve and rejected exactly
\* when it called reject; a dispatch that resolved has removed no cookie,
\* navigated nowhere and opened no dialog; and once its promise is settled
\* the promise, its position and its effects stay as they are, whatever the
\* other dispatches do.
C25_SettledOnce ==
  /\ [](\A d \in Dispatches :
          /\ Count(d, "resolve") + Count(d, "reject") <= 1
          /\ Fulfilled(d) <=> Count(d, "resolve") = 1
          /\ Rejected(d) <=> Count(d, "reject") = 1
          /\ ~(Fulfilled(d) /\ Rejected(d))
          /\ Fulfilled(d) =>
               /\ Count(d, "removeCookie") = 0
               /\ Count(d, "navigate") = 0
               /\ Count(d, "openContextModal") = 0)
  /\ [][\A d \in Dispatches :
          (Fulfilled(d) \/ Rejected(d)) =>
            /\ promise'[d] = promise[d]
            /\ pc'[d] = pc[d]
            /\ timer'[d] = timer[d] /\ inflight'[d] = inflight[d]
            /\ OwnLog(d)' = OwnLog(d)]_vars

\* one dispatch resolved, and a dispatch started after that was rejected for a
\* 401 with its dialog: the first one's promise is as it was
C25_Witness ==
  \E d, e \in Dispatches :
    /\ d # e
    /\ Fulfilled(d) /\ Rejected(e) /\ Failed401(e)
    /\ TruthyBool(ShowErrorDialog(d))
    /\ \E i \in EventIndexes(d, "resolve"), j \in EventIndexes(e, "setTimeout") : i < j
    /\ Count(e, "openContextModal") = 1
    /\ Count(d, "openContextModal") = 0

\* the calls made since the most recent reset, or all of them if there was none
RECURSIVE SinceReset(_)
SinceReset(cs) ==
  IF cs = <<>> THEN <<>>
  ELSE IF cs[Len(cs)] = "reset" THEN <<>>
  ELSE Append(SinceReset(SubSeq(cs, 1, Len(cs) - 1)), cs[Len(cs)])
\* how many of the calls cs are calls of name
Calls(cs, name) == Cardinality({ i \in 1..Len(cs) : cs[i] = name })

\* C26: count is the number of increase calls minus the number of decrease
\* calls since the most recent reset (since the start if there was none); so
\* it is 0 at the start and right after a reset, and it goes below 0 when the
\* decreases outnumber the increases.
C26_Count ==
  /\ count = Calls(SinceReset(calls), "increase") - Calls(SinceReset(calls), "decrease")
  /\ calls = <<>> => count = 0
  /\ (calls # <<>> /\ calls[Len(calls)] = "reset") => count = 0

\* after a reset of a positive count, two decreases: count is -2
C26_Witness ==
  /\ count = -2
  /\ \E i \in 1..Len(calls) :
       /\ calls[i] = "reset"
       /\ i > 1 /\ calls[i - 1] = "increase"
       /\ Len(calls) = i + 2

\* the dispatches made so far
StartedDispatches == { d \in Dispatches : pc[d] # "idle" }

\* C22: a read whose dispatch fails is not retried: the failed dispatch has
\* made one transport call and one rejection, the step that handles the
\* failure and the step that puts the entry in its error state start no
\* dispatch, an idle entry whose latest dispatch failed is in its error state,
\* and it leaves that state only by a new fetch of it.
C22_Claim ==
  /\ [](\A d \in StartedDispatches :
          Failed(d) => (Count(d, "request") = 1 /\ Count(d, "reject") = 1))
  /\ [](\A k \in QueryKeys :
          (/\ queries[k].exists /\ queries[k].fetchStatus = "idle"
           /\ following(k) # 0 /\ Failed(following(k))) =>
            queries[k].status = "error")
  /\ [][(\/ \E d \in Dispatches : caught[d] = Undefined /\ caught'[d] # Undefined
         \/ \E k \in QueryKeys : queries[k].status # "error" /\ queries'[k].status = "error")
        => StartedDispatches' = StartedDispatches]_vars
  /\ [][\A k \in QueryKeys :
          (/\ queries[k].status = "error" /\ queries[k].fetchStatus = "idle"
           /\ queries'[k].exists /\ queries'[k].status # "error") =>
            DispatchesOf(k)' # DispatchesOf(k)]_vars

\* the dispatches of key k whose timer or transport call is pending
InFlight(k) == { d \in DispatchesOf(k) : pc[d] \in {"scheduled", "awaiting"} }

\* C23 as stated: a read of a key whose entry is fetching starts no dispatch,
\* so that at most one dispatch per key is in flight at any time; and a step
\* of a read changes the entry of its own key only.
C23_Claim ==
  /\ [](\A k \in QueryKeys : Cardinality(InFlight(k)) <= 1)
  /\ [][\A k \in QueryKeys :
          (queries[k].fetchStatus = "fetching" /\ queries'[k].observers > queries[k].observers)
            => DispatchesOf(k)' = DispatchesOf(k)]_vars
  /\ [][mutation' = mutation =>
          Cardinality({ k \in QueryKeys : queries'[k] # queries[k] }) <= 1]_vars

\* C23 as amended: reads with identical parameters share the entry's fetch: a
\* read of a key whose entry is fetching starts no dispatch, and a fetching
\* entry is given a new dispatch only when an invalidation finds it holding
\* data; the dispatch it followed until then cannot be aborted and stays in
\* flight beside the new one, so a dispatch in flight that the entry does not
\* follow belongs to an entry that holds data.  Reads with different
\* parameters have different keys, and a step of a read or of a dispatch
\* changes the entry of its own key only.
C23_Amended ==
  /\ [](/\ \A p1, p2 \in Params : p1 # p2 => queryKey(p1) # queryKey(p2)
        /\ \A k \in QueryKeys :
             /\ queries[k].fetchStatus = "fetching" => following(k) # 0
             /\ \A d \in InFlight(k) : d # following(k) => queries[k].hasData)
  /\ [][\A k \in QueryKeys :
          (queries[k].fetchStatus = "fetching" /\ queries'[k].observers > queries[k].observers)
            => DispatchesOf(k)' = DispatchesOf(k)]_vars
  /\ [][\A k \in QueryKeys :
          (queries[k].fetchStatus = "fetching" /\ DispatchesOf(k)' # DispatchesOf(k))
            => (mutation = "invalidating" /\ queries[k].hasData)]_vars
  /\ [][mutation' = mutation =>
          Cardinality({ k \in QueryKeys : queries'[k] # queries[k] }) <= 1]_vars

\* two components read the same key and one dispatch is in flight for it,
\* while the entry of the other key holds the data of its own read
C23_Witness ==
  \E k, other \in QueryKeys :
    /\ k # other
    /\ queries[k].observers = 2
    /\ queries[k].fetchStatus = "fetching"
    /\ Cardinality(DispatchesOf(k)) = 1
    /\ Cardinality(InFlight(k)) = 1
    /\ queries[other].hasData /\ queries[other].status = "success"
====
